---- MODULE Spec2Model ----
(***************************************************************************)
(* Fornjot kernel: the sweep operations (vertex -> edge, edge -> face),    *)
(* the shell approximation with its shared cache, and the trapezoidation   *)
(* tree.  Scalars are modelled as integers; every record mirrors the       *)
(* object of the same name in the kernel.                                  *)
(***************************************************************************)
EXTENDS Integers, Sequences, FiniteSets, TLC

VARIABLES op, arg, ret,            \* last sweep call: operation, inputs, outcome
          pass,                    \* the orientation pass of the last edge sweep
          nodes, next_id, call,    \* trapezoidation tree and its last call
          cache, computed, approx  \* approximation cache, compute counts, result

vars == <<op, arg, ret, pass, nodes, next_id, call, cache, computed, approx>>

sweepVars == <<op, arg, ret, pass>>
treeVars == <<nodes, next_id, call>>
approxVars == <<cache, computed, approx>>

----------------------------------------------------------------------------
(* Bounds of the model *)

MaxCoord == 1      \* surface-local input coordinates are 0..MaxCoord
MaxPath == 1       \* path components are -MaxPath..MaxPath
MaxRadius == 1     \* circle radii are 1..MaxRadius
MaxT == 1          \* curve parameters of swept vertices are 0..MaxT

----------------------------------------------------------------------------
(* fj-math primitives *)

Zero2 == <<0, 0>>
Zero3 == <<0, 0, 0>>

VAdd(a, b) == [i \in DOMAIN a |-> a[i] + b[i]]
VSub(a, b) == [i \in DOMAIN a |-> a[i] - b[i]]
VNeg(a) == [i \in DOMAIN a |-> 0 - a[i]]
VScale(a, k) == [i \in DOMAIN a |-> a[i] * k]
VDiv(a, k) == [i \in DOMAIN a |-> a[i] \div k]
ZeroLike(a) == [i \in DOMAIN a |-> 0]

\* stand-in for Scalar::TAU, the curve parameter of a full circle
Tau == 6

Line(origin, direction) ==
    [kind |-> "Line", origin |-> origin, dir |-> direction,
     b |-> ZeroLike(origin)]

Circle(center, a, b) ==
    [kind |-> "Circle", origin |-> center, dir |-> a, b |-> b]

\* Line::from_points: origin a, direction b - a
LineFromPoints(points) == Line(points[1], VSub(points[2], points[1]))

\* Line::from_points_with_line_coords: the line on which the point a_p has
\* the line coordinate a_t and b_p has b_t
LineFromPointsWithLineCoords(points) ==
    LET a_t == points[1][1]
        a_p == points[1][2]
        b_t == points[2][1]
        b_p == points[2][2]
        direction == VDiv(VSub(b_p, a_p), b_t - a_t)
        origin == VAdd(a_p, VScale(direction, 0 - a_t))
    IN Line(origin, direction)

\* SurfacePath / GlobalPath :: point_from_path_coords, for lines; a circle
\* is evaluated only at the parameters 0 and Tau, which both give center + a
PointFromPathCoords(path, t) ==
    IF path.kind = "Line"
    THEN VAdd(path.origin, VScale(path.dir, t))
    ELSE VAdd(path.origin, path.dir)

PathReverse(path) ==
    IF path.kind = "Line"
    THEN [path EXCEPT !.dir = VNeg(path.dir)]
    ELSE [path EXCEPT !.b = VNeg(path.b)]

PathTranslate(path, offset) ==
    [path EXCEPT !.origin = VAdd(path.origin, offset)]

----------------------------------------------------------------------------
(* kernel objects *)

GlobalVertexFromPosition(position) == [position |-> position]

GlobalCurveFromPath(path) == [path |-> path]

\* GlobalCurve::build().line_from_points
GlobalCurveLineFromPoints(points) == GlobalCurveFromPath(LineFromPoints(points))

\* GlobalCurve::build().z_axis
GlobalCurveZAxis == GlobalCurveFromPath(Line(Zero3, <<0, 0, 1>>))

GlobalCurveTranslate(curve, offset) ==
    GlobalCurveFromPath(PathTranslate(curve.path, offset))

GlobalEdgeNew(curve, vertices) == [curve |-> curve, vertices |-> vertices]

\* Surface::SweptCurve: u is the swept curve, v the sweep path
SurfaceNew(u, v) == [u |-> u, v |-> v]

XyPlane == SurfaceNew(Line(Zero3, <<1, 0, 0>>), <<0, 1, 0>>)
XzPlane == SurfaceNew(Line(Zero3, <<1, 0, 0>>), <<0, 0, 1>>)

\* a surface-local vector, in global coordinates (line surfaces)
VectorFromSurfaceCoords(surface, vec) ==
    VAdd(VScale(surface.u.dir, vec[1]), VScale(surface.v, vec[2]))

PointFromSurfaceCoords(surface, point) ==
    VAdd(surface.u.origin, VectorFromSurfaceCoords(surface, point))

CurveNew(surface, path, global_form) ==
    [surface |-> surface, path |-> path, global_form |-> global_form]

SurfaceVertexNew(position, surface, global_form) ==
    [position |-> position, surface |-> surface, global_form |-> global_form]

VertexNew(position, curve, surface_form, global_form) ==
    [position |-> position, curve |-> curve,
     surface_form |-> surface_form, global_form |-> global_form]

HalfEdgeNew(curve, vertices, global_form) ==
    [curve |-> curve, vertices |-> vertices, global_form |-> global_form]

CycleNew(surface, edges) == [surface |-> surface, edges |-> edges]

FaceNew(surface, cycle, color) ==
    [surface |-> surface, cycle |-> cycle, color |-> color]

\* Curve::sweep: the surface whose u-axis is the curve and whose v-axis
\* is the path
CurveSweep(curve, path) == SurfaceNew(curve.global_form.path, path)

CurveReverse(curve) ==
    CurveNew(curve.surface, PathReverse(curve.path),
             GlobalCurveFromPath(PathReverse(curve.global_form.path)))

\* Edge::reverse: the vertices swap, the curve stays
EdgeReverse(edge) ==
    HalfEdgeNew(edge.curve, <<edge.vertices[2], edge.vertices[1]>>,
                edge.global_form)

\* Edge::reverse_including_curve: the curve is reversed, the vertices swap
\* and their curve parameters change sign
EdgeReverseIncludingCurve(edge) ==
    LET curve == CurveReverse(edge.curve)
        rev(vertex) == VertexNew(0 - vertex.position, curve,
                                 vertex.surface_form, vertex.global_form)
    IN HalfEdgeNew(curve,
                   <<rev(edge.vertices[2]), rev(edge.vertices[1])>>,
                   GlobalEdgeNew(curve.global_form,
                                 <<edge.global_form.vertices[2],
                                   edge.global_form.vertices[1]>>))

\* Path::is_negative_direction
IsNegativeDirection(path) == path[3] < 0

----------------------------------------------------------------------------
(* builders used to construct the inputs *)

\* Curve::build(surface).u_axis / v_axis
CurveUAxis(surface) ==
    CurveNew(surface, Line(Zero2, <<1, 0>>), GlobalCurveFromPath(surface.u))

CurveVAxis(surface) ==
    CurveNew(surface, Line(Zero2, <<0, 1>>),
             GlobalCurveFromPath(Line(surface.u.origin, surface.v)))

\* Vertex::build(curve).from_point
VertexFromPoint(curve, t) ==
    LET point_surface == PointFromPathCoords(curve.path, t)
        global_form == GlobalVertexFromPosition(
                           PointFromSurfaceCoords(curve.surface, point_surface))
    IN VertexNew(t, curve,
                 SurfaceVertexNew(point_surface, curve.surface, global_form),
                 global_form)

\* HalfEdge::build(surface).line_segment_from_points
LineSegmentFromPoints(surface, points) ==
    LET global_vertices ==
            [i \in 1..2 |-> GlobalVertexFromPosition(
                                PointFromSurfaceCoords(surface, points[i]))]
        curve_global == GlobalCurveLineFromPoints(
                            <<global_vertices[1].position,
                              global_vertices[2].position>>)
        curve == CurveNew(surface, LineFromPoints(points), curve_global)
        vertex(i) == VertexNew(i - 1, curve,
                               SurfaceVertexNew(points[i], surface,
                                                global_vertices[i]),
                               global_vertices[i])
    IN HalfEdgeNew(curve, <<vertex(1), vertex(2)>>,
                   GlobalEdgeNew(curve_global,
                                 <<global_vertices[1], global_vertices[2]>>))

\* HalfEdge::build(surface).circle_from_radius: a full circle, whose two
\* vertices at the parameters 0 and Tau share one global vertex
CircleFromRadius(surface, radius) ==
    LET path == Circle(Zero2, <<radius, 0>>, <<0, radius>>)
        curve_global == GlobalCurveFromPath(
                            Circle(PointFromSurfaceCoords(surface, Zero2),
                                   VectorFromSurfaceCoords(surface, <<radius, 0>>),
                                   VectorFromSurfaceCoords(surface, <<0, radius>>)))
        curve == CurveNew(surface, path, curve_global)
        global_vertex == GlobalVertexFromPosition(
                             PointFromSurfaceCoords(surface, <<radius, 0>>))
        surface_vertex == SurfaceVertexNew(<<radius, 0>>, surface, global_vertex)
        vertex(t) == VertexNew(t, curve, surface_vertex, global_vertex)
    IN HalfEdgeNew(curve, <<vertex(0), vertex(Tau)>>,
                   GlobalEdgeNew(curve_global, <<global_vertex, global_vertex>>))

----------------------------------------------------------------------------
(* outcomes of a call: a value, or the panic of a failed assertion; a call
   that has not run yet is pending *)

Ok(value) == [state |-> "ok", value |-> value]
Abort == [state |-> "abort"]
Pending == [state |-> "pending"]

----------------------------------------------------------------------------
(* sweep/vertex.rs *)

\* mutant: the far vertex is placed at the path, not at position + path
GlobalVertexSweepFromOrigin(self, path) ==
    LET a == self
        b == GlobalVertexFromPosition(path)
        curve == GlobalCurveLineFromPoints(<<a.position, b.position>>)
    IN GlobalEdgeNew(curve, <<a, b>>)

\* <GlobalVertex as Sweep>::sweep
GlobalVertexSweep(self, path) ==
    LET a == self
        b == GlobalVertexFromPosition(VAdd(self.position, path))
        curve == GlobalCurveLineFromPoints(<<a.position, b.position>>)
    IN GlobalEdgeNew(curve, <<a, b>>)

\* mutant: the path is not compared with the surface's v-direction
SweepInputValidCurveOnly(vertex, surface, path) ==
    vertex.curve.global_form.path = surface.u

\* mutant: a zero-length path is rejected
SweepInputValidNonZero(vertex, surface, path) ==
    /\ vertex.curve.global_form.path = surface.u
    /\ path = surface.v
    /\ path # Zero3

\* the two assertions at the head of <(Vertex, Surface) as Sweep>::sweep
SweepInputValid(vertex, surface, path) ==
    /\ vertex.curve.global_form.path = surface.u
    /\ path = surface.v

\* mutant: the vertex's parameter is taken as the v-coordinate
PointsSurfaceTransposed(vertex) ==
    << <<0, vertex.position>>, <<1, vertex.position>> >>

\* the surface coordinates of the two vertices of the swept edge
PointsSurface(vertex) ==
    << <<vertex.position, 0>>, <<vertex.position, 1>> >>

\* <(Vertex, Surface) as Sweep>::sweep, past its assertions
VertexSurfaceSweepBody(vertex, surface, path) ==
    LET edge_global == GlobalVertexSweep(vertex.global_form, path)
        points_surface == PointsSurface(vertex)
        curve == CurveNew(surface, LineFromPoints(points_surface),
                          edge_global.curve)
        vertices_global == edge_global.vertices
        vertices_surface ==
            [i \in 1..2 |-> SurfaceVertexNew(points_surface[i], surface,
                                             vertices_global[i])]
        vertices ==
            [i \in 1..2 |-> VertexNew(vertices_surface[i].position[2], curve,
                                      vertices_surface[i], vertices_global[i])]
    IN HalfEdgeNew(curve, <<vertices[1], vertices[2]>>, edge_global)

\* <(Vertex, Surface) as Sweep>::sweep
VertexSurfaceSweep(vertex, surface, path) ==
    IF SweepInputValid(vertex, surface, path)
    THEN Ok(VertexSurfaceSweepBody(vertex, surface, path))
    ELSE Abort

----------------------------------------------------------------------------
(* sweep/edge.rs *)

\* the bottom edge: the swept edge, rebound to the side surface
BottomEdge(edge, surface) ==
    LET vertices == edge.vertices
        points_curve_and_surface ==
            [i \in 1..2 |-> <<vertices[i].position,
                              <<vertices[i].position, 0>> >>]
        curve == CurveNew(surface,
                          LineFromPointsWithLineCoords(points_curve_and_surface),
                          edge.curve.global_form)
        vertex(i) ==
            VertexNew(vertices[i].position, curve,
                      SurfaceVertexNew(points_curve_and_surface[i][2], surface,
                                       vertices[i].global_form),
                      vertices[i].global_form)
    IN HalfEdgeNew(curve, <<vertex(1), vertex(2)>>, edge.global_form)

\* the side edges: the outcomes of sweeping the bottom edge's vertices
SideEdges(bottom_edge, surface, path) ==
    [i \in 1..2 |-> VertexSurfaceSweep(bottom_edge.vertices[i], surface, path)]

\* mutant: the top edge takes the near global vertices of the side edges
TopEdgeNearVertices(bottom_edge, side_edges, surface, path) ==
    LET bottom_vertices == bottom_edge.vertices
        global_vertices ==
            [i \in 1..2 |-> side_edges[i].vertices[1].global_form]
        points_curve_and_surface ==
            [i \in 1..2 |-> <<bottom_vertices[i].position,
                              <<bottom_vertices[i].position, 1>> >>]
        global == GlobalCurveTranslate(bottom_edge.curve.global_form, path)
        curve == CurveNew(surface,
                          LineFromPointsWithLineCoords(points_curve_and_surface),
                          global)
        global_edge == GlobalEdgeNew(curve.global_form,
                                     <<global_vertices[1], global_vertices[2]>>)
        vertex(i) ==
            VertexNew(bottom_vertices[i].position, curve,
                      SurfaceVertexNew(points_curve_and_surface[i][2], surface,
                                       global_vertices[i]),
                      global_vertices[i])
    IN HalfEdgeNew(curve, <<vertex(1), vertex(2)>>, global_edge)

\* the top edge, from the bottom edge and the two side edges
TopEdge(bottom_edge, side_edges, surface, path) ==
    LET bottom_vertices == bottom_edge.vertices
        global_vertices ==
            [i \in 1..2 |-> side_edges[i].vertices[2].global_form]
        points_curve_and_surface ==
            [i \in 1..2 |-> <<bottom_vertices[i].position,
                              <<bottom_vertices[i].position, 1>> >>]
        global == GlobalCurveTranslate(bottom_edge.curve.global_form, path)
        curve == CurveNew(surface,
                          LineFromPointsWithLineCoords(points_curve_and_surface),
                          global)
        global_edge == GlobalEdgeNew(curve.global_form,
                                     <<global_vertices[1], global_vertices[2]>>)
        vertex(i) ==
            VertexNew(bottom_vertices[i].position, curve,
                      SurfaceVertexNew(points_curve_and_surface[i][2], surface,
                                       global_vertices[i]),
                      global_vertices[i])
    IN HalfEdgeNew(curve, <<vertex(1), vertex(2)>>, global_edge)

\* mutant: the vertices are compared by their global forms
OrientStepGlobalForm(edges, i) ==
    LET j == (i + 1) % Len(edges)
        prev_last == edges[i + 1].vertices[2]
        next_first == edges[j + 1].vertices[1]
    IN IF prev_last.global_form # next_first.global_form
       THEN [edges EXCEPT ![j + 1] = EdgeReverse(edges[j + 1])]
       ELSE edges

\* mutant: the edge that is reversed is edge i, not edge j
OrientStepReversePrev(edges, i) ==
    LET j == (i + 1) % Len(edges)
        prev_last == edges[i + 1].vertices[2]
        next_first == edges[j + 1].vertices[1]
    IN IF prev_last.surface_form # next_first.surface_form
       THEN [edges EXCEPT ![i + 1] = EdgeReverse(edges[i + 1])]
       ELSE edges

\* one step of the orientation pass: edge j = (i + 1) % len is reversed if
\* its first vertex does not continue edge i (indices are those of the
\* code; the sequence is 1-based)
OrientStep(edges, i) ==
    LET j == (i + 1) % Len(edges)
        prev_last == edges[i + 1].vertices[2]
        next_first == edges[j + 1].vertices[1]
    IN IF prev_last.surface_form # next_first.surface_form
       THEN [edges EXCEPT ![j + 1] = EdgeReverse(edges[j + 1])]
       ELSE edges

RECURSIVE OrientFrom(_, _)
\* the while loop of the orientation pass, from index i on
OrientFrom(edges, i) ==
    IF i < Len(edges)
    THEN OrientFrom(OrientStep(edges, i), i + 1)
    ELSE edges

\* mutant: the two side edges are taken in the other order
SweptCycleSidesSwapped(surface, bottom_edge, side_edges, top_edge) ==
    LET a == bottom_edge
        b == side_edges[1]
        d == side_edges[2]
        c == top_edge
    IN CycleNew(surface, OrientFrom(<<a, b, c, d>>, 0))

\* the cycle of the swept face: [a, b, c, d], oriented
SweptCycle(surface, bottom_edge, side_edges, top_edge) ==
    LET a == bottom_edge
        d == side_edges[1]
        b == side_edges[2]
        c == top_edge
    IN CycleNew(surface, OrientFrom(<<a, b, c, d>>, 0))

\* <(Edge, Color) as Sweep>::sweep
EdgeSweep(self, path) ==
    LET color == self[2]
        edge == IF IsNegativeDirection(path)
                THEN EdgeReverseIncludingCurve(self[1])
                ELSE self[1]
        surface == CurveSweep(edge.curve, path)
        bottom_edge == BottomEdge(edge, surface)
        side_outcomes == SideEdges(bottom_edge, surface, path)
        side_edges == [i \in 1..2 |-> side_outcomes[i].value]
        top_edge == TopEdge(bottom_edge, side_edges, surface, path)
    IN IF \E i \in 1..2 : side_outcomes[i].state # "ok"
       THEN Abort
       ELSE Ok(FaceNew(surface,
                       SweptCycle(surface, bottom_edge, side_edges, top_edge),
                       color))

RECURSIVE OrientChecks(_, _)
\* the checks the while loop makes from index i on: the pair (i, j) that
\* is compared, and whether the step reversed an edge
OrientChecks(edges, i) ==
    IF i < Len(edges)
    THEN <<[i |-> i, j |-> (i + 1) % Len(edges),
            reversed |-> OrientStep(edges, i) # edges]>>
         \o OrientChecks(OrientStep(edges, i), i + 1)
    ELSE <<>>

\* no orientation pass has run
NoPass == [edges |-> <<>>, checks |-> <<>>]

\* the orientation pass of <(Edge, Color) as Sweep>::sweep: the edges
\* [a, b, c, d] it starts from and the checks it makes
OrientationPass(self, path) ==
    LET edge == IF IsNegativeDirection(path)
                THEN EdgeReverseIncludingCurve(self[1])
                ELSE self[1]
        surface == CurveSweep(edge.curve, path)
        bottom_edge == BottomEdge(edge, surface)
        side_outcomes == SideEdges(bottom_edge, surface, path)
        side_edges == [i \in 1..2 |-> side_outcomes[i].value]
        top_edge == TopEdge(bottom_edge, side_edges, surface, path)
        a == bottom_edge
        d == side_edges[1]
        b == side_edges[2]
        c == top_edge
    IN IF \E i \in 1..2 : side_outcomes[i].state # "ok"
       THEN NoPass
       ELSE [edges |-> <<a, b, c, d>>,
             checks |-> OrientChecks(<<a, b, c, d>>, 0)]

----------------------------------------------------------------------------
(* inputs of the sweep operations *)

Coords == 0..MaxCoord
Points2 == Coords \X Coords
Points3 == Coords \X Coords \X Coords
PathRange == (0 - MaxPath)..MaxPath
Paths == PathRange \X PathRange \X PathRange
Colors == {"red", "blue"}

\* surfaces a vertex is swept on: the x- or y-axis swept along any path
Surfaces ==
    {SurfaceNew(Line(Zero3, d), v) : d \in {<<1, 0, 0>>, <<0, 1, 0>>}, v \in Paths}

\* curves a swept vertex lies on
InputCurves ==
    {CurveUAxis(XyPlane), CurveVAxis(XyPlane),
     CurveUAxis(XzPlane), CurveVAxis(XzPlane)}

InputVertices == {VertexFromPoint(c, t) : c \in InputCurves, t \in 0..MaxT}

\* edges that are swept: line segments between distinct points, in both
\* directions, and full circles
InputEdges ==
    {LineSegmentFromPoints(s, pq) :
        s \in {XyPlane, XzPlane},
        pq \in {x \in Points2 \X Points2 : x[1] # x[2]}} \cup
    {CircleFromRadius(s, r) : s \in {XyPlane, XzPlane}, r \in 1..MaxRadius}

----------------------------------------------------------------------------
(* the sweep calls: the initial state holds the inputs of one call, the
   action runs it *)

GlobalVertexArgs ==
    {[vertex |-> GlobalVertexFromPosition(p), path |-> path] :
        p \in Points3, path \in Paths}

VertexSurfaceArgs ==
    {[vertex |-> vertex, surface |-> surface, path |-> path] :
        vertex \in InputVertices, surface \in Surfaces, path \in Paths}

EdgeColorArgs ==
    {[edge |-> edge, color |-> color, path |-> path] :
        edge \in InputEdges, color \in Colors, path \in Paths}

SweepGlobalVertex ==
    /\ op = "global_vertex"
    /\ ret = Pending
    /\ ret' = Ok(GlobalVertexSweep(arg.vertex, arg.path))
    /\ UNCHANGED <<op, arg, pass, treeVars, approxVars>>

SweepVertexSurface ==
    /\ op = "vertex"
    /\ ret = Pending
    /\ ret' = VertexSurfaceSweep(arg.vertex, arg.surface, arg.path)
    /\ UNCHANGED <<op, arg, pass, treeVars, approxVars>>

SweepEdgeColor ==
    /\ op = "edge"
    /\ ret = Pending
    /\ ret' = EdgeSweep(<<arg.edge, arg.color>>, arg.path)
    /\ pass' = OrientationPass(<<arg.edge, arg.color>>, arg.path)
    /\ UNCHANGED <<op, arg, treeVars, approxVars>>

\* the other components, idle
TreeIdle == nodes = <<>> /\ next_id = 0 /\ call = [name |-> "none"]
ApproxIdle == cache = <<>> /\ computed = <<>> /\ approx = [name |-> "none"]

InitSweep ==
    /\ \/ op = "global_vertex" /\ arg \in GlobalVertexArgs
       \/ op = "vertex" /\ arg \in VertexSurfaceArgs
       \/ op = "edge" /\ arg \in EdgeColorArgs
    /\ ret = Pending
    /\ pass = NoPass
    /\ TreeIdle
    /\ ApproxIdle

NextSweep ==
    \/ SweepGlobalVertex
    \/ SweepVertexSurface
    \/ SweepEdgeColor

Spec == InitSweep /\ [][NextSweep]_vars

----------------------------------------------------------------------------
(* trapezoidation/tree.rs *)

MaxSplits == 4     \* calls of Tree::split in one run

\* the values a leaf is split with: Branch::Vertex(Vertex::new(x, y))
BranchVertex(x, y) == [kind |-> "Vertex", x |-> x, y |-> y]
Branches == {BranchVertex(0, 0), BranchVertex(1, 1)}

\* an Option is the empty set or a singleton
None == {}
Some(x) == {x}
Unwrap(option) == CHOOSE x \in option : TRUE

\* Node::Leaf and Node::Branch
LeafNode(parent) == [kind |-> "Leaf", parent |-> parent]
BranchNode(parent, above, below, branch) ==
    [kind |-> "Branch", parent |-> parent, above |-> above, below |-> below,
     branch |-> branch]

\* Nodes::insert_leaf: a leaf without parent under the next free id
InsertLeaf(ns, id) ==
    [n \in DOMAIN ns \cup {id} |-> IF n = id THEN LeafNode(None) ELSE ns[n]]

\* Tree::new
TreeNew == InsertLeaf(<<>>, 0)

\* Tree::trapezoids: the ids of the leafs
Trapezoids(ns) == {id \in DOMAIN ns : ns[id].kind = "Leaf"}

\* Tree::get_parent and Tree::get_parent_mut panic unless the node is a
\* branch
IsBranch(ns, id) == ns[id].kind = "Branch"

\* the update of the old leaf's parent in Tree::split: both arms of the
\* match that do not panic assign the parent's above child
RelinkParent(ns, parent_id, old_leaf_id, new_branch_id) ==
    IF old_leaf_id = ns[parent_id].above
    THEN Ok([ns EXCEPT ![parent_id].above = new_branch_id])
    ELSE IF old_leaf_id = ns[parent_id].below
    THEN Ok([ns EXCEPT ![parent_id].above = new_branch_id])
    ELSE Abort

\* Tree::split: the outcome is the new tree and the id of the new branch,
\* or a panic that leaves the tree as it was when the panic happened
Split(ns, next, split_at, split_with) ==
    LET new_leaf_id == next
        new_branch_id == next + 1
        inserted == InsertLeaf(InsertLeaf(ns, new_leaf_id), new_branch_id)
        old_leaf_id == split_at
        old_leaf_parent == inserted[old_leaf_id].parent
        taken == [inserted EXCEPT ![old_leaf_id].parent = Some(new_branch_id)]
        relinked ==
            IF old_leaf_parent = None
            THEN Ok(taken)
            ELSE IF ~IsBranch(taken, Unwrap(old_leaf_parent))
            THEN Abort
            ELSE RelinkParent(taken, Unwrap(old_leaf_parent), old_leaf_id,
                              new_branch_id)
    IN IF relinked.state # "ok"
       THEN [state |-> "panic", nodes |-> taken, ret |-> None]
       ELSE [state |-> "ok",
             nodes |-> [relinked.value EXCEPT
                           ![new_branch_id] =
                               BranchNode(old_leaf_parent, old_leaf_id,
                                          new_leaf_id, split_with),
                           ![new_leaf_id].parent = Some(new_branch_id)],
             ret |-> Some(new_branch_id)]

\* Tree::parent_of: Ok(None) for a node without parent, Ok(Some(parent id,
\* branch, relation)) for a child of its parent, a panic otherwise
ParentOf(ns, id) ==
    LET node == ns[id]
        parent_id == Unwrap(node.parent)
        parent == ns[parent_id]
    IN IF node.parent = None
       THEN Ok(None)
       ELSE IF ~IsBranch(ns, parent_id)
       THEN Abort
       ELSE IF id = parent.above
       THEN Ok(Some(<<parent_id, parent.branch, "Above">>))
       ELSE IF id = parent.below
       THEN Ok(Some(<<parent_id, parent.branch, "Below">>))
       ELSE Abort

\* the relation of a node to its parent, as the parent records it
RelationOf(ns, id) ==
    LET outcome == ParentOf(ns, id)
    IN IF outcome.state = "ok" /\ outcome.value # None
       THEN Unwrap(outcome.value)[3]
       ELSE "Unrelated"

\* a call of Tree::split on one of the trapezoids; after a panic no
\* further call is made.  The call is recorded with what held before it.
TreeSplit ==
    /\ call.name \in {"new", "split"}
    /\ call.state = "ok"
    /\ call.n < MaxSplits
    /\ \E split_at \in Trapezoids(nodes), split_with \in Branches :
           LET outcome == Split(nodes, next_id, split_at, split_with)
           IN /\ nodes' = outcome.nodes
              /\ next_id' = next_id + 2
              /\ call' = [name |-> "split", state |-> outcome.state,
                          n |-> call.n + 1,
                          split_at |-> split_at, split_with |-> split_with,
                          ret |-> outcome.ret,
                          parent_before |-> nodes[split_at].parent,
                          relation_before |-> RelationOf(nodes, split_at),
                          leafs_before |-> Cardinality(Trapezoids(nodes)),
                          next_before |-> next_id]
    /\ UNCHANGED <<sweepVars, approxVars>>

SweepIdle == op = "none" /\ arg = <<>> /\ ret = Pending /\ pass = NoPass

InitTree ==
    /\ nodes = TreeNew
    /\ next_id = 1
    /\ call = [name |-> "new", state |-> "ok", n |-> 0]
    /\ SweepIdle
    /\ ApproxIdle

NextTree == TreeSplit

TreeSpec == InitTree /\ [][NextTree]_vars

----------------------------------------------------------------------------
(* approx/shell.rs and the approximations it calls *)

MaxCurves == 3       \* curves (and edges) of the shells: 1..MaxCurves
MaxFaceCurves == 2   \* curves in the boundary of one face
MaxFaces == 2        \* faces of one shell
MaxTolerance == 2    \* tolerances are 1..MaxTolerance

CurveKeys == 1..MaxCurves
Tolerances == 1..MaxTolerance

\* a face is given by the curves of its boundary, a shell by its faces
ShellFaces ==
    {f \in SUBSET CurveKeys : f # {} /\ Cardinality(f) <= MaxFaceCurves}
Shells ==
    {sh \in SUBSET ShellFaces : sh # {} /\ Cardinality(sh) <= MaxFaces}

\* the tessellation of a curve within a tolerance
Tessellate(curve, tolerance) == [curve |-> curve, tolerance |-> tolerance]

\* ApproxCache::new
CacheNew == <<>>

\* the outcome of an approximation: the approximations of the faces, the
\* cache as the call leaves it, and how often each curve was tessellated
ApproxOutcome(faces, c, count) == [faces |-> faces, cache |-> c, count |-> count]

NoCount == [k \in CurveKeys |-> 0]

\* <&Face as Approx>::approx_with_cache: a curve that is in the cache is
\* taken from it, any other is tessellated and stored
FaceApproxWithCache(face, tolerance, c) ==
    LET missing == face \ DOMAIN c
        after == [k \in DOMAIN c \cup missing |->
                     IF k \in DOMAIN c THEN c[k] ELSE Tessellate(k, tolerance)]
    IN ApproxOutcome([k \in face |-> after[k]], after,
                     [k \in CurveKeys |-> IF k \in missing THEN 1 ELSE 0])

RECURSIVE FacesApproxWithCache(_, _, _)
\* <&Faces as Approx>::approx_with_cache: the faces one after the other,
\* each with the cache as the face before it left it
FacesApproxWithCache(faces, tolerance, c) ==
    IF faces = {}
    THEN ApproxOutcome(<<>>, c, NoCount)
    ELSE LET face == CHOOSE f \in faces : TRUE
             first == FaceApproxWithCache(face, tolerance, c)
             rest == FacesApproxWithCache(faces \ {face}, tolerance, first.cache)
         IN ApproxOutcome(
                [f \in faces |-> IF f = face THEN first.faces ELSE rest.faces[f]],
                rest.cache,
                [k \in CurveKeys |-> first.count[k] + rest.count[k]])

RECURSIVE ShellApproxCachePerFace(_, _, _)
\* mutant: every face is approximated with the cache as the caller passed
\* it, not as the face before left it
ShellApproxCachePerFace(self, tolerance, c) ==
    IF self = {}
    THEN ApproxOutcome(<<>>, c, NoCount)
    ELSE LET face == CHOOSE f \in self : TRUE
             first == FaceApproxWithCache(face, tolerance, c)
             rest == ShellApproxCachePerFace(self \ {face}, tolerance, c)
         IN ApproxOutcome(
                [f \in self |-> IF f = face THEN first.faces ELSE rest.faces[f]],
                [k \in DOMAIN first.cache \cup DOMAIN rest.cache |->
                    IF k \in DOMAIN first.cache
                    THEN first.cache[k] ELSE rest.cache[k]],
                [k \in CurveKeys |-> first.count[k] + rest.count[k]])

\* <&Shell as Approx>::approx_with_cache
ShellApproxWithCache(self, tolerance, c) ==
    FacesApproxWithCache(self, tolerance, c)

\* the caches a caller can hold: empty, or filled by earlier approximations
\* of some curves, each within some tolerance
Caches ==
    UNION {{c \in [ks -> {Tessellate(k, t) : k \in ks, t \in Tolerances}] :
               \A k \in ks : c[k].curve = k} : ks \in SUBSET CurveKeys}

\* a shell is approximated with the cache the caller holds
ApproxShell ==
    /\ approx.name = "none"
    /\ \E shell \in Shells, tolerance \in Tolerances :
        LET outcome == ShellApproxWithCache(shell, tolerance, cache)
        IN /\ cache' = outcome.cache
           /\ computed' = outcome.count
           /\ approx' = [name |-> "shell", shell |-> shell,
                         tolerance |-> tolerance, faces |-> outcome.faces,
                         cache_before |-> cache]
           /\ UNCHANGED <<sweepVars, treeVars>>

\* the caller starts over with a new cache
ApproxCacheNew ==
    /\ cache # CacheNew
    /\ cache' = CacheNew
    /\ computed' = NoCount
    /\ approx' = [name |-> "none"]
    /\ UNCHANGED <<sweepVars, treeVars>>

InitApprox ==
    /\ cache \in Caches
    /\ computed = NoCount
    /\ approx = [name |-> "none"]
    /\ SweepIdle
    /\ TreeIdle

NextApprox ==
    \/ ApproxShell
    \/ ApproxCacheNew

ApproxSpec == InitApprox /\ [][NextApprox]_vars

----------------------------------------------------------------------------
(* trapezoidation/vertex.rs *)

MaxXY == 1         \* finite vertex coordinates are -MaxXY..MaxXY

\* an f32: a number, or NaN, which compares false with everything
F32(v) == [nan |-> FALSE, v |-> v]
NaN == [nan |-> TRUE, v |-> 0]
Floats == {F32(v) : v \in (0 - MaxXY)..MaxXY} \cup {NaN}

\* the comparisons of f32
FGt(a, b) == ~a.nan /\ ~b.nan /\ a.v > b.v
FLt(a, b) == ~a.nan /\ ~b.nan /\ a.v < b.v
FEq(a, b) == ~a.nan /\ ~b.nan /\ a.v = b.v

\* Vertex::new of the trapezoidation
TrapezoidationVertex(x, y) == [x |-> x, y |-> y]
TrapezoidationVertices == {TrapezoidationVertex(x, y) : x \in Floats, y \in Floats}

\* the derived PartialEq of Vertex
VertexEq(a, b) == FEq(a.x, b.x) /\ FEq(a.y, b.y)

\* mutant: for equal y the vertex with the larger x is the upper one
IsUpperRightFirst(self, other) ==
    IF FGt(self.y, other.y) THEN TRUE
    ELSE IF FLt(self.y, other.y) THEN FALSE
    ELSE IF FEq(self.y, other.y) /\ FGt(self.x, other.x) THEN TRUE
    ELSE FALSE

\* Vertex::is_upper
IsUpper(self, other) ==
    IF FGt(self.y, other.y) THEN TRUE
    ELSE IF FLt(self.y, other.y) THEN FALSE
    ELSE IF FEq(self.y, other.y) /\ FLt(self.x, other.x) THEN TRUE
    ELSE IF FEq(self.y, other.y) /\ FGt(self.x, other.x) THEN FALSE
    ELSE FALSE

\* Vertex::is_lower
IsLower(self, other) == IsUpper(other, self)

VertexOrderArgs == {[a |-> a, b |-> b] : a, b \in TrapezoidationVertices}

\* two vertices are compared, each way and each with itself
VertexCompare ==
    /\ op = "vertex_order"
    /\ ret = Pending
    /\ ret' = Ok([upper |-> IsUpper(arg.a, arg.b),
                  upper_reverse |-> IsUpper(arg.b, arg.a),
                  lower |-> IsLower(arg.a, arg.b),
                  upper_self |-> IsUpper(arg.a, arg.a),
                  lower_self |-> IsLower(arg.a, arg.a)])
    /\ UNCHANGED <<op, arg, pass, treeVars, approxVars>>

InitVertex ==
    /\ op = "vertex_order"
    /\ arg \in VertexOrderArgs
    /\ ret = Pending
    /\ pass = NoPass
    /\ TreeIdle
    /\ ApproxIdle

NextVertex == VertexCompare

VertexSpec == InitVertex /\ [][NextVertex]_vars

----------------------------------------------------------------------------
(* properties of the sweep operations *)

SweptFace == op = "edge" /\ ret.state = "ok"

\* C1: in every face returned by the edge sweep the four edges of the cycle
\* are closed by surface form: for i in 0..3 the surface form of the last
\* vertex of edge i is that of the first vertex of edge (i + 1) mod 4
C1_LoopClosure ==
    SweptFace =>
        LET edges == ret.value.cycle.edges
        IN /\ Len(edges) = 4
           /\ \A i \in 0..3 :
                  edges[i + 1].vertices[2].surface_form =
                      edges[((i + 1) % 4) + 1].vertices[1].surface_form

\* a circle swept along a negative path has returned a face
C1_Witness ==
    /\ SweptFace
    /\ IsNegativeDirection(arg.path)
    /\ arg.edge.curve.path.kind = "Circle"

\* C2: the vertex sweep aborts exactly if the global form of the vertex's
\* curve differs from the surface's u-curve or the path differs from the
\* surface's v-direction; an aborted call returns no edge
C2_ContractFailure ==
    (op = "vertex" /\ ret # Pending) =>
        /\ ret.state \in {"ok", "abort"}
        /\ ret.state = "abort" <=>
               \/ arg.vertex.curve.global_form.path # arg.surface.u
               \/ arg.path # arg.surface.v
        /\ ret.state = "abort" => DOMAIN ret = {"state"}

\* a vertex on the surface's u-curve, swept along another path than the
\* surface's, has aborted
C2_Witness ==
    /\ op = "vertex"
    /\ ret.state = "abort"
    /\ arg.vertex.curve.global_form.path = arg.surface.u
    /\ arg.path # arg.surface.v

\* the call of tests::vertex_surface
VertexSurfaceScenario ==
    [vertex |-> VertexFromPoint(CurveUAxis(XzPlane), 0),
     surface |-> XzPlane, path |-> <<0, 0, 1>>]

\* C3: the vertex sweep of a vertex with parameter t returns an edge on the
\* given surface from (t, 0), parameter 0, to (t, 1), parameter 1, on the
\* line through these two points; for t = 0 on the u-axis of the xz-plane,
\* along [0,0,1], it is the line segment from [0,0] to [0,1]
C3_SweptHalfEdge ==
    (op = "vertex" /\ ret.state = "ok") =>
        LET t == arg.vertex.position
            edge == ret.value
            a == edge.vertices[1]
            b == edge.vertices[2]
        IN /\ edge.curve.surface = arg.surface
           /\ a.surface_form.surface = arg.surface
           /\ b.surface_form.surface = arg.surface
           /\ a.surface_form.position = <<t, 0>>
           /\ a.position = 0
           /\ b.surface_form.position = <<t, 1>>
           /\ b.position = 1
           /\ edge.curve.path.kind = "Line"
           /\ PointFromPathCoords(edge.curve.path, a.position) = <<t, 0>>
           /\ PointFromPathCoords(edge.curve.path, b.position) = <<t, 1>>
           /\ a.curve = edge.curve
           /\ b.curve = edge.curve
           /\ arg = VertexSurfaceScenario =>
                  edge = LineSegmentFromPoints(XzPlane, << <<0, 0>>, <<0, 1>> >>)

\* a vertex with a parameter other than 0 has been swept
C3_Witness ==
    /\ op = "vertex"
    /\ ret.state = "ok"
    /\ arg.vertex.position # 0

\* C4: the global vertex sweep of a vertex at p along d returns the edge
\* from the vertex itself to a vertex at p + d, over the line from p in the
\* direction d; for p = [0,0,0], d = [0,0,1] it is the edge over the z-axis
\* from [0,0,0] to [0,0,1]
C4_SweptGlobalEdge ==
    (op = "global_vertex" /\ ret.state = "ok") =>
        LET p == arg.vertex.position
            d == arg.path
            edge == ret.value
        IN /\ edge.vertices[1] = arg.vertex
           /\ edge.vertices[2] = GlobalVertexFromPosition(VAdd(p, d))
           /\ edge.curve.path = Line(p, d)
           /\ (p = Zero3 /\ d = <<0, 0, 1>>) =>
                  edge = GlobalEdgeNew(GlobalCurveZAxis,
                             <<GlobalVertexFromPosition(Zero3),
                               GlobalVertexFromPosition(<<0, 0, 1>>)>>)

\* a vertex off the origin has been swept along a path that is not zero
C4_Witness ==
    /\ op = "global_vertex"
    /\ ret.state = "ok"
    /\ arg.vertex.position # Zero3
    /\ arg.path # Zero3

\* the indices i of a loop of edges whose edge i is not continued, by
\* surface form, by the next edge of the loop
Mismatches(edges) ==
    {i \in 1..Len(edges) :
        edges[i].vertices[2].surface_form #
            edges[(i % Len(edges)) + 1].vertices[1].surface_form}

C7_ZeroPath ==
    /\ (op = "global_vertex" /\ arg.path = Zero3 /\ ret # Pending) =>
           /\ ret.state = "ok"
           /\ ret.value.vertices[1].position = ret.value.vertices[2].position
    /\ (op = "edge" /\ arg.path = Zero3 /\ ret # Pending) =>
           /\ ret.state = "ok"
           /\ ret.value.surface.v = Zero3
           /\ LET bottom == ret.value.cycle.edges[1]
                  top == ret.value.cycle.edges[3]
              IN \A i, j \in 1..2 :
                     top.vertices[i].surface_form.position[1] =
                         bottom.vertices[j].surface_form.position[1]
                     => top.vertices[i].global_form.position =
                            bottom.vertices[j].global_form.position

\* an edge has been swept along the zero path
C7_Witness ==
    /\ SweptFace
    /\ arg.path = Zero3
    /\ arg.edge.vertices[1].global_form # arg.edge.vertices[2].global_form

----------------------------------------------------------------------------
(* properties of the trapezoidation tree *)

SplitCalled == call.name = "split"

\* C8: every split on a leaf returns the id of a branch that carries
\* split_with, whose above child is the split leaf and whose below child is
\* a new leaf; afterwards parent_of(split leaf) is (returned id, split_with,
\* Above) and parent_of(new leaf) is (returned id, split_with, Below)
C8_SplitResult ==
    SplitCalled =>
        /\ call.state = "ok"
        /\ call.ret # None
        /\ LET id == Unwrap(call.ret)
               branch == nodes[id]
           IN /\ branch.kind = "Branch"
              /\ branch.branch = call.split_with
              /\ branch.above = call.split_at
              /\ branch.below >= call.next_before
              /\ branch.below \in Trapezoids(nodes)
              /\ ParentOf(nodes, call.split_at) =
                     Ok(Some(<<id, call.split_with, "Above">>))
              /\ ParentOf(nodes, branch.below) =
                     Ok(Some(<<id, call.split_with, "Below">>))

\* C9: when the split leaf had a parent P, as its above or as its below
\* child, the returned branch takes the place of the leaf under P, and
\* parent_of(returned id) yields P as the parent
C9_BranchTakesLeafsPlace ==
    (SplitCalled /\ call.parent_before # None) =>
        /\ call.state = "ok"
        /\ call.ret # None
        /\ LET id == Unwrap(call.ret)
               P == Unwrap(call.parent_before)
           IN /\ call.relation_before = "Above" => nodes[P].above = id
              /\ call.relation_before = "Below" => nodes[P].below = id
              /\ ParentOf(nodes, id).state = "ok"
              /\ ParentOf(nodes, id).value # None
              /\ Unwrap(ParentOf(nodes, id).value)[1] = P

\* C10: a new tree has exactly one trapezoid, which has no parent; every
\* split on a leaf adds exactly one trapezoid, so that after n splits there
\* are n + 1 trapezoids, the split leaf among them
C10_TrapezoidCount ==
    /\ call.name = "new" =>
           /\ Cardinality(Trapezoids(nodes)) = 1
           /\ \A id \in Trapezoids(nodes) : ParentOf(nodes, id) = Ok(None)
    /\ SplitCalled =>
           /\ call.state = "ok"
           /\ Cardinality(Trapezoids(nodes)) = call.leafs_before + 1
           /\ Cardinality(Trapezoids(nodes)) = call.n + 1
           /\ call.split_at \in Trapezoids(nodes)

----------------------------------------------------------------------------
(* properties of the shell approximation *)

ShellApproximated == approx.name = "shell"

\* C6: within one shell approximation the caller's cache is threaded, with
\* the same tolerance, through the approximation of every face: each curve
\* is tessellated at most once, and only if the caller's cache did not hold
\* it; the cache keeps what it held and holds every curve of the shell
\* afterwards; two faces that share a curve receive the same stored result
C6_SharedCache ==
    ShellApproximated =>
        LET shell == approx.shell
            curves == UNION shell
            before == approx.cache_before
        IN /\ \A k \in CurveKeys :
                  computed[k] = IF k \in curves \ DOMAIN before THEN 1 ELSE 0
           /\ DOMAIN cache = DOMAIN before \cup curves
           /\ \A k \in DOMAIN before : cache[k] = before[k]
           /\ \A k \in curves \ DOMAIN before :
                  cache[k] = Tessellate(k, approx.tolerance)
           /\ \A f \in shell : \A k \in f : approx.faces[f][k] = cache[k]
           /\ \A f, g \in shell : \A k \in f \cap g :
                  approx.faces[f][k] = approx.faces[g][k]

\* two faces that share a curve the cache did not hold have been
\* approximated
C6_Witness ==
    /\ ShellApproximated
    /\ \E f, g \in approx.shell :
           /\ f # g
           /\ \E k \in f \cap g : k \notin DOMAIN approx.cache_before

----------------------------------------------------------------------------
(* properties of the order of the trapezoidation vertices *)

VerticesCompared == op = "vertex_order" /\ ret.state = "ok"

HasNaN(v) == v.x.nan \/ v.y.nan

\* C11, as claimed: is_upper(a, a) is false for every vertex a; of any two
\* vertices with different coordinates exactly one is the upper of the
\* other; is_lower(a, b) is is_upper(b, a)
C11_StrictOrderOfAll ==
    VerticesCompared =>
        /\ ~ret.value.upper_self
        /\ ~VertexEq(arg.a, arg.b) =>
               (ret.value.upper # ret.value.upper_reverse)
        /\ ret.value.lower = ret.value.upper_reverse

\* C11, amended: is_upper(a, a) is false for every vertex a; of any two
\* vertices without NaN and with different coordinates exactly one is the
\* upper of the other, namely the one with the larger y or, for equal y,
\* the smaller x; is_lower(a, b) is is_upper(b, a) for all a, b
C11_StrictOrder ==
    VerticesCompared =>
        /\ ~ret.value.upper_self
        /\ ~ret.value.lower_self
        /\ (~HasNaN(arg.a) /\ ~HasNaN(arg.b)) =>
               /\ ret.value.upper <=>
                      \/ arg.a.y.v > arg.b.y.v
                      \/ arg.a.y.v = arg.b.y.v /\ arg.a.x.v < arg.b.x.v
               /\ arg.a # arg.b =>
                      (ret.value.upper # ret.value.upper_reverse)
        /\ ret.value.lower = ret.value.upper_reverse

\* two vertices with the same y and different x have been compared
C11_Witness ==
    /\ VerticesCompared
    /\ ~HasNaN(arg.a) /\ ~HasNaN(arg.b)
    /\ arg.a.y = arg.b.y
    /\ arg.a.x.v < arg.b.x.v
    /\ ret.value.upper

----------------------------------------------------------------------------
(* the links of the trapezoidation tree *)

\* C12: after any sequence of splits of leaves the parent and child links
\* agree: a node with a parent is the above or the below child of that
\* parent; the above and below children of a branch are distinct and have
\* the branch as their parent; parent_of panics for no node
C12_LinksAgree ==
    call.name \in {"new", "split"} =>
        \A id \in DOMAIN nodes :
            /\ nodes[id].parent # None =>
                   LET parent_id == Unwrap(nodes[id].parent)
                   IN /\ IsBranch(nodes, parent_id)
                      /\ \/ nodes[parent_id].above = id
                         \/ nodes[parent_id].below = id
            /\ IsBranch(nodes, id) =>
                   /\ nodes[id].above # nodes[id].below
                   /\ nodes[nodes[id].above].parent = Some(id)
                   /\ nodes[nodes[id].below].parent = Some(id)
            /\ ParentOf(nodes, id).state = "ok"

----------------------------------------------------------------------------
(* the global vertices of a swept face *)

\* C13: in every swept face, vertices of different edges of the cycle with
\* the same surface position carry the same global vertex: the bottom edge
\* keeps the global vertices of the swept edge (reversed first, if the path
\* is negative), each
\* side edge starts at the global vertex of the bottom vertex it was swept
\* from, and the top edge's global edge and vertices use the far global
\* vertices of the two side edges
C13_SharedGlobalVertices ==
    SweptFace =>
        LET edges == ret.value.cycle.edges
            bottom == edges[1]
            side_b == edges[2]
            top == edges[3]
            side_a == edges[4]
            swept == IF IsNegativeDirection(arg.path)
                     THEN <<arg.edge.vertices[2], arg.edge.vertices[1]>>
                     ELSE arg.edge.vertices
        IN /\ \A i, j \in 1..4 : \A k, l \in 1..2 :
                  (i # j /\ edges[i].vertices[k].surface_form.position =
                                edges[j].vertices[l].surface_form.position)
                  => /\ edges[i].vertices[k].global_form =
                            edges[j].vertices[l].global_form
                     /\ edges[i].vertices[k].surface_form.global_form =
                            edges[j].vertices[l].global_form
           /\ \A k \in 1..2 :
                  bottom.vertices[k].global_form = swept[k].global_form
           /\ side_a.global_form.vertices[1] = bottom.vertices[1].global_form
           /\ side_b.global_form.vertices[1] = bottom.vertices[2].global_form
           /\ top.global_form.vertices =
                  <<side_a.global_form.vertices[2],
                    side_b.global_form.vertices[2]>>
           /\ {top.vertices[k].global_form : k \in 1..2} =
                  {side_a.global_form.vertices[2],
                   side_b.global_form.vertices[2]}

\* a circle, whose two vertices share one global vertex, has been swept
\* along a path that is not zero
C13_Witness ==
    /\ SweptFace
    /\ arg.edge.curve.path.kind = "Circle"
    /\ arg.path # Zero3
    /\ ret.value.cycle.edges[1].vertices[1].global_form =
           ret.value.cycle.edges[1].vertices[2].global_form

----------------------------------------------------------------------------
(* the orientation pass of the edge sweep *)

\* C14: the orientation pass checks the pairs (0,1), (1,2), (2,3), (3,0)
\* once each, in this order, and only reverses an edge in place, so that
\* the cycle keeps the order [bottom, side of the second vertex, top, side
\* of the first vertex]; the check of (3,0) finds a match and leaves the
\* bottom edge as it is, so that the pair (0,1) still matches
C14_OrientationPass ==
    SweptFace =>
        LET checks == pass.checks
            before == pass.edges
            after == ret.value.cycle.edges
            swept == IF IsNegativeDirection(arg.path)
                     THEN <<0 - arg.edge.vertices[2].position,
                            0 - arg.edge.vertices[1].position>>
                     ELSE <<arg.edge.vertices[1].position,
                            arg.edge.vertices[2].position>>
        IN /\ Len(checks) = 4
           /\ \A n \in 1..4 : checks[n].i = n - 1 /\ checks[n].j = n % 4
           /\ Len(before) = 4 /\ Len(after) = 4
           /\ \A k \in 1..4 :
                  after[k] =
                      IF \E n \in 1..4 : checks[n].j = k - 1 /\ checks[n].reversed
                      THEN EdgeReverse(before[k])
                      ELSE before[k]
           /\ \A k \in 1..2 :
                  /\ before[1].vertices[k].surface_form.position = <<swept[k], 0>>
                  /\ before[3].vertices[k].surface_form.position = <<swept[k], 1>>
           /\ before[2].vertices[1].surface_form = before[1].vertices[2].surface_form
           /\ before[4].vertices[1].surface_form = before[1].vertices[1].surface_form
           /\ ~checks[4].reversed
           /\ after[1] = before[1]
           /\ after[4].vertices[2].surface_form = after[1].vertices[1].surface_form
           /\ after[1].vertices[2].surface_form = after[2].vertices[1].surface_form

\* an edge has been swept and the pass has reversed the top edge and the
\* side edge of the first vertex
C14_Witness ==
    /\ SweptFace
    /\ Len(pass.checks) = 4
    /\ ~pass.checks[1].reversed
    /\ pass.checks[2].reversed
    /\ pass.checks[3].reversed
    /\ ~pass.checks[4].reversed

====
